---- MODULE Spec2Model ----
(***************************************************************************)
(* Model of joystick_button_actions.py: the main event loop that reads     *)
(* 8-byte joystick records, tracks per-button press times and per-axis     *)
(* previous samples, classifies an event into at most one action name and  *)
(* starts the script of that name when it exists.                          *)
(*                                                                         *)
(* Representation choices:                                                 *)
(*  - a record read from the device is a sequence of bytes (0..255);       *)
(*  - a timestamp (struct format 'I', 32 bits unsigned) is kept as its two *)
(*    16-bit halves [hi, lo], value hi * 65536 + lo, because the full      *)
(*    32-bit range does not fit the integers of TLC.  A Python             *)
(*    difference of two timestamps is kept the same way, with lo in        *)
(*    0..65535 and hi in -65536..65535 (floor division by 65536);          *)
(*  - a Python float that the program computes as n / 32767.0 or writes as *)
(*    the literal 0.8 is kept as the fraction [num, den].  Every float the *)
(*    program compares is of that form, the fractions that are compared    *)
(*    differ by more than 1e-6 or are equal integers over the same         *)
(*    denominator, so the exact comparison of fractions agrees with the    *)
(*    comparison of the rounded doubles.                                   *)
(***************************************************************************)
EXTENDS Integers, Sequences, FiniteSets, TLC

VARIABLES
    pc,                 \* "loop": about to read; otherwise the exception that ended the program
    evbuf,              \* bytes returned by the last jsdev.read(8)
    button_press_time,  \* dict: button number -> time of its last press
    axes_prev_time,     \* dict: axis number -> time of its last sample
    axes_prev_value,    \* dict: axis number -> fvalue of its last sample
    action_fn,          \* the action name variable of the loop
    reads,              \* number of jsdev.read(8) calls made so far
    trace               \* history: one entry per decoded record, in order

vars == <<pc, evbuf, button_press_time, axes_prev_time, axes_prev_value,
          action_fn, reads, trace>>

(***************************************************************************)
(* Bounds                                                                  *)
(***************************************************************************)
MaxReads == 3

(***************************************************************************)
(* Program constants and configuration                                     *)
(***************************************************************************)
max_duration == 1000

axe_thresh_val == [num |-> 8, den |-> 10]

scriptdir == "/home/pi"

RecordSize == 8

(***************************************************************************)
(* Arithmetic helpers                                                      *)
(***************************************************************************)
\* time - stored, Python's unbounded integer subtraction, on 16-bit halves.
PySub(t, s) ==
    LET borrow == IF t.lo < s.lo THEN 1 ELSE 0
    IN  [hi |-> t.hi - s.hi - borrow, lo |-> t.lo - s.lo + 65536 * borrow]

\* duration < m for an integer m in 0..65536.
PyLess(d, m) == d.hi < 0 \/ (d.hi = 0 /\ d.lo < m)

\* float comparisons and negation on fractions with positive denominators.
FLess(a, b) == a.num * b.den < b.num * a.den

FNeg(a) == [num |-> 0 - a.num, den |-> a.den]

FIsZero(a) == a.num = 0

\* x / 32767.0
FDiv32767(x) == [num |-> x, den |-> 32767]

\* variant: the value is read unsigned (format 'H' instead of 'h')
UnpackUnsignedValue(buf) ==
    [time   |-> [hi |-> buf[3] + 256 * buf[4], lo |-> buf[1] + 256 * buf[2]],
     value  |-> buf[5] + 256 * buf[6],
     type   |-> buf[7],
     number |-> buf[8]]

(***************************************************************************)
(* struct.unpack('IhBB', evbuf): native little-endian layout, 4-byte       *)
(* unsigned time, 2-byte signed value, 1-byte type, 1-byte number.         *)
(***************************************************************************)
Unpack(buf) ==
    [time   |-> [hi |-> buf[3] + 256 * buf[4], lo |-> buf[1] + 256 * buf[2]],
     value  |-> LET u == buf[5] + 256 * buf[6]
                IN  IF u >= 32768 THEN u - 65536 ELSE u,
     type   |-> buf[7],
     number |-> buf[8]]

\* variant: every buffer read counts as data
TruthyAlways(buf) == TRUE

\* `if evbuf:`  a bytes object is true when it is not empty.
Truthy(buf) == Len(buf) > 0

\* struct.unpack raises struct.error unless the buffer has exactly 8 bytes.
UnpackFits(buf) == Len(buf) = RecordSize

\* variant: tests bit 0x40 instead of 0x80
IsInitBit40(type) == (type \div 64) % 2 = 1

\* type & 0x80, type & 0x01, type & 0x02
IsInit(type) == (type \div 128) % 2 = 1

IsButton(type) == type % 2 = 1

\* variant: `elif type & 0x02`, the axis branch is skipped for a button event
IsAxisUnlessButton(type) == (type \div 2) % 2 = 1 /\ type % 2 = 0

IsAxis(type) == (type \div 2) % 2 = 1

(***************************************************************************)
(* Sample input: the records the device delivers.  Each is 8 bytes:        *)
(* time (4, little-endian), value (2, little-endian), type, number.        *)
(***************************************************************************)
T0 == <<0, 0, 0, 0>>            \* time 0

T999 == <<231, 3, 0, 0>>        \* time 999

T1000 == <<232, 3, 0, 0>>       \* time 1000

TMax == <<255, 255, 255, 255>>  \* time 2^32 - 1

V0 == <<0, 0>>                  \* value 0

V1 == <<1, 0>>                  \* value 1

VNeg30000 == <<208, 138>>       \* value -30000

VNeg20000 == <<224, 177>>       \* value -20000

VPos30000 == <<48, 117>>        \* value 30000

VMin == <<0, 128>>              \* value -32768

Rec(t, v, type, number) == t \o v \o <<type, number>>

ButtonRecords ==
    {Rec(t, v, 1, 3) : t \in {T0, T999, T1000, TMax}, v \in {V0, V1}}
    \cup {Rec(T0, V1, 1, 0), Rec(T999, V0, 1, 0)}

AxisRecords ==
    {Rec(t, V0, 2, 1) : t \in {T0, T999, T1000}}
    \cup {Rec(T0, v, 2, 1) : v \in {VNeg30000, VNeg20000, VPos30000}}
    \cup {Rec(T999, VPos30000, 2, 1)}
    \cup {Rec(T0, V0, 2, 0), Rec(T999, V0, 2, 0), Rec(T0, VMin, 2, 0)}

BothRecords == {Rec(t, v, 3, 3) : t \in {T0, T999}, v \in {V0, V1}}

InitRecords ==
    {Rec(T999, V0, 129, 3), Rec(T0, V1, 129, 3), Rec(T999, V0, 130, 1),
     Rec(T999, V0, 131, 3), Rec(T0, VPos30000, 128, 0)}

OtherRecords == {Rec(T999, V0, 0, 3), Rec(T0, V1, 4, 3)}

Records ==
    ButtonRecords \cup AxisRecords \cup BothRecords \cup InitRecords
        \cup OtherRecords

\* reads that return 1..7 bytes
ShortReads == {<<0>>, SubSeq(Rec(T999, V0, 1, 3), 1, 7)}

(***************************************************************************)
(* The loop body                                                           *)
(***************************************************************************)
\* "on_button_" + str(button) + "_pressed"
ButtonAction(button) == "on_button_" \o ToString(button) \o "_pressed"

\* "on_axis_" + str(axis) + "_negative" / "_positive"
AxisNegative(axis) == "on_axis_" \o ToString(axis) \o "_negative"

AxisPositive(axis) == "on_axis_" \o ToString(axis) \o "_positive"

\* variant: duration <= max_duration
WithinBudgetInclusive(duration) == PyLess(duration, max_duration + 1)

\* duration < max_duration
WithinBudget(duration) == PyLess(duration, max_duration)

\* variant: the assignment rebuilds the dict with the one key
DictSetOnly(d, key, val) == [k \in {key} |-> val]

\* dict[key] = val
DictSet(d, key, val) ==
    [k \in DOMAIN d \cup {key} |-> IF k = key THEN val ELSE d[k]]

\* variant: a release deletes the record of the button
ButtonBranchClearOnRelease(time, value, number, bpt, act) ==
    LET button == number
        cleared == [k \in DOMAIN bpt \ {button} |-> bpt[k]]
    IN  IF value # 0
        THEN [bpt |-> DictSet(bpt, button, time), act |-> act]
        ELSE IF button \in DOMAIN bpt
                  /\ WithinBudget(PySub(time, bpt[button]))
             THEN [bpt |-> cleared, act |-> ButtonAction(button)]
             ELSE [bpt |-> cleared, act |-> act]

\* variant: a press is recorded only when the button has no record yet
ButtonBranchKeepFirst(time, value, number, bpt, act) ==
    LET button == number
    IN  IF value # 0
        THEN [bpt |-> IF button \in DOMAIN bpt THEN bpt
                      ELSE DictSet(bpt, button, time),
              act |-> act]
        ELSE IF button \in DOMAIN bpt
                  /\ WithinBudget(PySub(time, bpt[button]))
             THEN [bpt |-> bpt, act |-> ButtonAction(button)]
             ELSE [bpt |-> bpt, act |-> act]

\* variant: a release without a recorded press is measured from itself
ButtonBranchDefaultPress(time, value, number, bpt, act) ==
    LET button == number
        press == IF button \in DOMAIN bpt THEN bpt[button] ELSE time
    IN  IF value # 0
        THEN [bpt |-> DictSet(bpt, button, time), act |-> act]
        ELSE IF WithinBudget(PySub(time, press))
             THEN [bpt |-> bpt, act |-> ButtonAction(button)]
             ELSE [bpt |-> bpt, act |-> act]

\* `if type & 0x01:` branch.  Yields the dict and the action name after it.
ButtonBranch(time, value, number, bpt, act) ==
    LET button == number
    IN  IF value # 0
        THEN [bpt |-> DictSet(bpt, button, time), act |-> act]
        ELSE IF button \in DOMAIN bpt
                  /\ WithinBudget(PySub(time, bpt[button]))
             THEN [bpt |-> bpt, act |-> ButtonAction(button)]
             ELSE [bpt |-> bpt, act |-> act]

\* variant: fvalue = value / 32767.0
FValueOfValue(value, number) == FDiv32767(value)

\* fvalue = axis / 32767.0   (axis = number)
FValue(value, number) == FDiv32767(number)

\* variant: the sign of the threshold is lost
BelowPosThreshold(prev) == FLess(prev, axe_thresh_val)

\* axes_prev_value[axis] < -axe_thresh_val
BelowNegThreshold(prev) == FLess(prev, FNeg(axe_thresh_val))

\* variant: compares with the negative threshold
AboveNegThreshold(prev) == FLess(FNeg(axe_thresh_val), prev)

\* axes_prev_value[axis] > axe_thresh_val
AbovePosThreshold(prev) == FLess(axe_thresh_val, prev)

\* `if type & 0x02:` branch.  Yields both dicts and the action name after it.
AxisBranch(time, value, number, apt, apv, act) ==
    LET axis == number
        fvalue == FValue(value, number)
        act2 ==
            IF axis \in DOMAIN apt /\ axis \in DOMAIN apv
            THEN IF FIsZero(fvalue) /\ WithinBudget(PySub(time, apt[axis]))
                 THEN IF BelowNegThreshold(apv[axis])
                      THEN AxisNegative(axis)
                      ELSE IF AbovePosThreshold(apv[axis])
                           THEN AxisPositive(axis)
                           ELSE act
                 ELSE act
            ELSE act
    IN  [apt |-> DictSet(apt, axis, time),
         apv |-> DictSet(apv, axis, fvalue),
         act |-> act2]

\* variant: the action name of the previous event is kept
ResetActionKeep(prev) == prev

\* action_fn = ""  at the start of every decoded event
ResetAction(prev) == ""

\* scriptdir + "/" + action_fn
ScriptFile(act) == scriptdir \o "/" \o act

\* `if len(action_fn) > 0:`
HasAction(act) == act # ""

\* variant: the script is started without asking whether it exists
DispatchUnchecked(act, is_file) ==
    IF HasAction(act) THEN <<ScriptFile(act)>> ELSE <<>>

\* The paths handed to subprocess.Popen for one event.
Dispatch(act, is_file) ==
    IF HasAction(act) /\ is_file THEN <<ScriptFile(act)>> ELSE <<>>

(***************************************************************************)
(* Initial state: the dicts are empty, nothing has been read.              *)
(***************************************************************************)
Init ==
    /\ pc = "loop"
    /\ evbuf = <<>>
    /\ button_press_time = <<>>
    /\ axes_prev_time = <<>>
    /\ axes_prev_value = <<>>
    /\ action_fn = ""
    /\ reads = 0
    /\ trace = <<>>

(***************************************************************************)
(* One iteration of `while True:`.  buf is what jsdev.read(8) returns,      *)
(* is_file the answer of Path(script_file).is_file() when it is asked,     *)
(* popen_ok whether subprocess.Popen returns without raising when called.  *)
(***************************************************************************)
Entry(e, act, is_file) ==
    [ev |-> e, action |-> act, queried |-> HasAction(act),
     is_file |-> is_file, launched |-> Dispatch(act, is_file)]

LoopBody(buf, is_file, popen_ok) ==
    /\ pc = "loop"
    /\ reads < MaxReads
    /\ evbuf' = buf
    /\ reads' = reads + 1
    /\ IF ~Truthy(buf)
       THEN \* `if evbuf:` is false: read again
            /\ ~is_file /\ popen_ok
            /\ UNCHANGED <<pc, button_press_time, axes_prev_time,
                           axes_prev_value, action_fn, trace>>
       ELSE IF ~UnpackFits(buf)
       THEN \* struct.error is not caught and ends the program
            /\ ~is_file /\ popen_ok
            /\ pc' = "struct.error"
            /\ UNCHANGED <<button_press_time, axes_prev_time,
                           axes_prev_value, action_fn, trace>>
       ELSE LET e == Unpack(buf)
            IN  IF IsInit(e.type)
                THEN \* action_fn = ""; continue
                     /\ ~is_file /\ popen_ok
                     /\ action_fn' = ResetAction(action_fn)
                     /\ trace' = Append(trace,
                            [Entry(e, ResetAction(action_fn), FALSE)
                                EXCEPT !.queried = FALSE])
                     /\ UNCHANGED <<pc, button_press_time, axes_prev_time,
                                    axes_prev_value>>
                ELSE LET b == IF IsButton(e.type)
                              THEN ButtonBranch(e.time, e.value, e.number,
                                                button_press_time,
                                                ResetAction(action_fn))
                              ELSE [bpt |-> button_press_time,
                                    act |-> ResetAction(action_fn)]
                         a == IF IsAxis(e.type)
                              THEN AxisBranch(e.time, e.value, e.number,
                                              axes_prev_time, axes_prev_value,
                                              b.act)
                              ELSE [apt |-> axes_prev_time,
                                    apv |-> axes_prev_value, act |-> b.act]
                     IN  /\ (is_file => HasAction(a.act))
                         /\ (~popen_ok => Dispatch(a.act, is_file) # <<>>)
                         /\ button_press_time' = b.bpt
                         /\ axes_prev_time' = a.apt
                         /\ axes_prev_value' = a.apv
                         /\ action_fn' = a.act
                         /\ pc' = IF popen_ok THEN "loop" ELSE "OSError"
                         /\ trace' = Append(trace, Entry(e, a.act, is_file))

ReadEmpty == LoopBody(<<>>, FALSE, TRUE)

ReadShort == \E buf \in ShortReads : LoopBody(buf, FALSE, TRUE)

ReadRecord ==
    \E buf \in Records, is_file \in BOOLEAN, popen_ok \in BOOLEAN :
        LoopBody(buf, is_file, popen_ok)

Next == ReadEmpty \/ ReadShort \/ ReadRecord

(***************************************************************************)
(* A second specification for the decoder alone: one read of a record      *)
(* whose eight bytes are drawn from the corner values of a byte.           *)
(***************************************************************************)
DecodeBytes == {0, 1, 127, 128, 255}

DecodeRecords == [1..RecordSize -> DecodeBytes]

ReadOnce ==
    /\ reads = 0
    /\ \E buf \in DecodeRecords, is_file \in BOOLEAN, popen_ok \in BOOLEAN :
           LoopBody(buf, is_file, popen_ok)

SpecDecode == Init /\ [][ReadOnce]_vars

Spec == Init /\ [][Next]_vars

(***************************************************************************)
(* Vocabulary of the properties, written on the decoded fields of the      *)
(* history and independent of the operators of the loop body.              *)
(***************************************************************************)
Last(seq) == seq[Len(seq)]

\* the step decoded a record (appended an entry to the history)
Decoded == Len(trace') = Len(trace) + 1

HasInitBit(e) == e.type >= 128

\* a non-init event with the button bit, resp. the axis bit, for index n
ButtonEv(e, n) == e.type < 128 /\ e.type % 2 = 1 /\ e.number = n

AxisEv(e, n) == e.type < 128 /\ (e.type \div 2) % 2 = 1 /\ e.number = n

PressEv(e, n) == ButtonEv(e, n) /\ e.value # 0

ReleaseEv(e, n) == ButtonEv(e, n) /\ e.value = 0

TimeLeq(a, b) == a.hi < b.hi \/ (a.hi = b.hi /\ a.lo <= b.lo)

\* (t1 - t0) mod 2^32 < m, for m in 0..65536
ModGapLess(t0, t1, m) ==
    LET borrow == IF t1.lo < t0.lo THEN 1 ELSE 0
    IN  /\ (t1.hi - t0.hi - borrow) % 65536 = 0
        /\ (t1.lo - t0.lo) % 65536 < m

\* t0 <= t1 and t1 - t0 < m
GapLess(t0, t1, m) == TimeLeq(t0, t1) /\ ModGapLess(t0, t1, m)

\* i is the latest entry before j that satisfies the button/axis pattern
PrevButtonEv(i, j, n) ==
    /\ i < j
    /\ ButtonEv(trace[i].ev, n)
    /\ \A k \in (i + 1)..(j - 1) : ~ButtonEv(trace[k].ev, n)

PrevPress(i, j, n) ==
    /\ i < j
    /\ PressEv(trace[i].ev, n)
    /\ \A k \in (i + 1)..(j - 1) : ~PressEv(trace[k].ev, n)

PrevAxisEv(i, j, n) ==
    /\ i < j
    /\ AxisEv(trace[i].ev, n)
    /\ \A k \in (i + 1)..(j - 1) : ~AxisEv(trace[k].ev, n)

IsAxisAction(act, n) ==
    act \in {"on_axis_" \o ToString(n) \o "_negative",
             "on_axis_" \o ToString(n) \o "_positive"}

Pos == 1..Len(trace)

C2_AxisSnapBack ==
    \A i, j \in Pos :
        LET n == trace[j].ev.number
            v == trace[i].ev.value
        IN  (/\ PrevAxisEv(i, j, n)
             /\ AxisEv(trace[j].ev, n)
             /\ trace[j].ev.value = 0
             /\ GapLess(trace[i].ev.time, trace[j].ev.time, 1000))
            => /\ 10 * v < (0 - 8) * 32767
                   => trace[j].action = "on_axis_" \o ToString(n) \o "_negative"
               /\ 10 * v > 8 * 32767
                   => trace[j].action = "on_axis_" \o ToString(n) \o "_positive"

(***************************************************************************)
(* C3  Init events are no-ops: a step that decodes an event with bit 0x80  *)
(* leaves the button and axis dicts unchanged, produces no action name and *)
(* attempts no launch.                                                     *)
(***************************************************************************)
C3_InitNoOp ==
    [][(Decoded /\ HasInitBit(Last(trace').ev))
        => /\ UNCHANGED <<button_press_time, axes_prev_time, axes_prev_value>>
           /\ action_fn' = ""
           /\ Last(trace').action = ""
           /\ ~Last(trace').queried
           /\ Last(trace').launched = <<>>]_vars

\* an init event with button and axis bits (0x83) for index 3 was
\* processed after button 3 had a press time recorded
C3_Witness ==
    /\ Len(trace) >= 2
    /\ Last(trace).ev.type = 131
    /\ Last(trace).ev.number = 3
    /\ 3 \in DOMAIN button_press_time
    /\ evbuf # <<>>

(***************************************************************************)
(* C4  Action only on an in-budget release-class transition (as claimed):  *)
(* an event has a non-empty action name only if it is a button event with  *)
(* value 0 or an axis event with raw value 0, and the time elapsed on the  *)
(* 32-bit device clock since the prior state update of its index (the last *)
(* press of the button, the last sample of the axis) is < 1000.            *)
(***************************************************************************)
C4_ActionOnlyInBudget ==
    \A j \in Pos :
        LET e == trace[j].ev
            n == e.number
        IN  trace[j].action # ""
            => \/ /\ ReleaseEv(e, n)
                  /\ \E i \in Pos :
                        /\ PrevPress(i, j, n)
                        /\ ModGapLess(trace[i].ev.time, e.time, 1000)
               \/ /\ AxisEv(e, n)
                  /\ e.value = 0
                  /\ \E i \in Pos :
                        /\ PrevAxisEv(i, j, n)
                        /\ ModGapLess(trace[i].ev.time, e.time, 1000)

(***************************************************************************)
(* C5  Dispatch gating: an event that produced action a with a regular     *)
(* file at scriptdir/a has exactly one launch, of that path; an event with *)
(* no action or no file has none, the loop goes on, and a button release   *)
(* leaves the dicts as they were whether or not a script was started.      *)
(***************************************************************************)
C5_Gating ==
    /\ \A j \in Pos :
          LET x == trace[j]
          IN  /\ (x.action # "" /\ x.is_file)
                  => x.launched = <<"/home/pi/" \o x.action>>
              /\ (x.action = "" \/ ~x.is_file) => x.launched = <<>>
              /\ x.queried <=> x.action # ""
    /\ pc = "OSError" => Last(trace).launched # <<>>

C5_DispatchGating ==
    /\ []C5_Gating
    /\ [][(Decoded /\ Last(trace').launched = <<>>) => pc' = "loop"]_vars
    /\ [][(Decoded /\ Last(trace').ev.type = 1 /\ Last(trace').ev.value = 0)
           => UNCHANGED <<button_press_time, axes_prev_time,
                          axes_prev_value>>]_vars

\* button 0 released in budget, the script exists and was started once
C5_Witness ==
    /\ trace # <<>>
    /\ Last(trace).action = "on_button_0_pressed"
    /\ Last(trace).is_file
    /\ Last(trace).launched = <<"/home/pi/on_button_0_pressed">>
    /\ pc = "loop"

(***************************************************************************)
(* C6  Duration is modular uint32 subtraction (as claimed): a button       *)
(* release after a recorded press produces the button action exactly when  *)
(* (time - press time) mod 2^32 < 1000, and an axis action is produced     *)
(* only when (time - previous sample time) mod 2^32 < 1000.                *)
(***************************************************************************)
C6_ModularDuration ==
    \A i, j \in Pos :
        LET e == trace[j].ev
            n == e.number
        IN  /\ (PrevPress(i, j, n) /\ ReleaseEv(e, n))
                => (trace[j].action = "on_button_" \o ToString(n) \o "_pressed"
                    <=> ModGapLess(trace[i].ev.time, e.time, 1000))
            /\ (PrevAxisEv(i, j, n) /\ AxisEv(e, n)
                    /\ IsAxisAction(trace[j].action, n))
                => ModGapLess(trace[i].ev.time, e.time, 1000)

(***************************************************************************)
(* C7  Button release without baseline: a release of button n when no      *)
(* press of n has been processed produces no action, attempts no launch    *)
(* and creates no button-state record for n.                               *)
(***************************************************************************)
C7_ReleaseWithoutBaseline ==
    /\ \A j \in Pos :
          LET n == trace[j].ev.number
          IN  (/\ ReleaseEv(trace[j].ev, n)
               /\ \A i \in 1..(j - 1) : ~PressEv(trace[i].ev, n))
              => /\ trace[j].action = ""
                 /\ trace[j].launched = <<>>
    /\ \A n \in DOMAIN button_press_time :
          \E i \in Pos : PressEv(trace[i].ev, n)

\* button 3 released at 999 as the first button event for 3, after
\* another button had been pressed
C7_Witness ==
    /\ Len(trace) >= 2
    /\ ReleaseEv(Last(trace).ev, 3)
    /\ \A i \in Pos : ~PressEv(trace[i].ev, 3)
    /\ 3 \notin DOMAIN button_press_time
    /\ button_press_time # <<>>
    /\ action_fn = ""

(***************************************************************************)
(* C8  Axis state always updated (as claimed): after a non-init axis event *)
(* for n at time t with raw value v that no later axis event for n         *)
(* follows, the axis state of n is last time t and last value v / 32767;   *)
(* the first axis event for n produces no action.                          *)
(***************************************************************************)
C8_AxisStateUpdated ==
    \A j \in Pos :
        LET e == trace[j].ev
            n == e.number
        IN  AxisEv(e, n)
            => /\ (\A k \in (j + 1)..Len(trace) : ~AxisEv(trace[k].ev, n))
                   => /\ n \in DOMAIN axes_prev_time
                      /\ n \in DOMAIN axes_prev_value
                      /\ axes_prev_time[n] = e.time
                      /\ axes_prev_value[n].num * 32767
                            = e.value * axes_prev_value[n].den
               /\ (\A i \in 1..(j - 1) : ~AxisEv(trace[i].ev, n))
                   => ~IsAxisAction(trace[j].action, n)

C10_ShortAndEmptyRead ==
    /\ [][(reads' = reads + 1 /\ Len(evbuf') \in 1..7)
           => /\ pc' = "struct.error"
              /\ UNCHANGED <<button_press_time, axes_prev_time,
                             axes_prev_value, action_fn, trace>>]_vars
    /\ [][(reads' = reads + 1 /\ Len(evbuf') = 0)
           => /\ pc' = "loop"
              /\ UNCHANGED <<button_press_time, axes_prev_time,
                             axes_prev_value, action_fn, trace>>]_vars
    /\ [][pc = "loop"]_vars

\* after a press was recorded, an empty read was tolerated and the
\* following short read ended the loop
C10_Witness ==
    /\ pc = "struct.error"
    /\ Len(evbuf) = 7
    /\ reads = Len(trace) + 2
    /\ button_press_time # <<>>

(***************************************************************************)
(* C11  Decode round-trip: decoding an 8-byte record yields a timestamp in *)
(* the unsigned 32-bit range, a value in the signed 16-bit range, a kind   *)
(* and an index in the byte range, and writing these four fields back in   *)
(* the layout (timestamp little-endian in bytes 0-3, value two's           *)
(* complement little-endian in bytes 4-5, kind in byte 6, index in byte 7) *)
(* yields the original 8 bytes.                                            *)
(***************************************************************************)
Encode(e) ==
    LET u == e.value % 65536
    IN  <<e.time.lo % 256, e.time.lo \div 256,
          e.time.hi % 256, e.time.hi \div 256,
          u % 256, u \div 256, e.type, e.number>>

InFieldRanges(e) ==
    /\ e.time.lo \in 0..65535
    /\ e.time.hi \in 0..65535
    /\ e.value \in (0 - 32768)..32767
    /\ e.type \in 0..255
    /\ e.number \in 0..255

C11_DecodeRoundTrip ==
    (Len(evbuf) = 8 /\ trace # <<>>)
        => /\ InFieldRanges(Last(trace).ev)
           /\ Encode(Last(trace).ev) = evbuf

\* a record with the largest timestamp and the most negative value was
\* decoded
C11_Witness ==
    /\ evbuf = <<255, 255, 255, 255, 0, 128, 1, 255>>
    /\ Len(trace) = 1
    /\ Last(trace).ev.time = [hi |-> 65535, lo |-> 65535]
    /\ Last(trace).ev.value = 0 - 32768
    /\ Last(trace).ev.number = 255

(***************************************************************************)
(* C12  Button returns to Idle on release (as claimed): after a release of *)
(* button n, a further release of n with no press of n in between produces *)
(* no button action, so one press yields at most one action.               *)
(***************************************************************************)
C12_IdleAfterRelease ==
    \A i, j \in Pos :
        LET n == trace[j].ev.number
        IN  (/\ i < j
             /\ ReleaseEv(trace[i].ev, n)
             /\ ReleaseEv(trace[j].ev, n)
             /\ \A k \in (i + 1)..(j - 1) : ~PressEv(trace[k].ev, n))
            => trace[j].action # "on_button_" \o ToString(n) \o "_pressed"

C14_BothBits ==
    LET e == Last(trace').ev
        n == e.number
        b == ButtonBranch(e.time, e.value, n, button_press_time, "")
        a == AxisBranch(e.time, e.value, n, axes_prev_time, axes_prev_value, "")
    IN  (Decoded /\ e.type < 128 /\ e.type % 4 = 3)
        => /\ button_press_time' = b.bpt
           /\ axes_prev_time' = a.apt
           /\ axes_prev_value' = a.apv
           /\ Last(trace').action = (IF a.act # "" THEN a.act ELSE b.act)
           /\ e.value # 0 => /\ n \in DOMAIN button_press_time'
                             /\ button_press_time'[n] = e.time
           /\ e.value = 0 => button_press_time' = button_press_time
           /\ n \in DOMAIN axes_prev_time' /\ axes_prev_time'[n] = e.time
           /\ n \in DOMAIN axes_prev_value'

C14_NeitherBit ==
    LET e == Last(trace').ev
    IN  (Decoded /\ e.type < 128 /\ e.type % 4 = 0)
        => /\ UNCHANGED <<button_press_time, axes_prev_time, axes_prev_value>>
           /\ Last(trace').action = ""
           /\ Last(trace').launched = <<>>

C14_IndependentBits ==
    /\ [][C14_BothBits]_vars
    /\ [][C14_NeitherBit]_vars
    /\ [](\A j \in Pos : Len(trace[j].launched) <= 1)

\* button 3 pressed at 0, then one record with both bits for index 3 and
\* value 0 at 999: the release is classified and the axis sample stored
C14_Witness ==
    /\ Len(trace) >= 2
    /\ Last(trace).ev.type = 3
    /\ Last(trace).ev.number = 3
    /\ Last(trace).ev.value = 0
    /\ Last(trace).action = "on_button_3_pressed"
    /\ button_press_time[3] = [hi |-> 0, lo |-> 0]
    /\ 3 \in DOMAIN axes_prev_time
    /\ axes_prev_time[3] = [hi |-> 0, lo |-> 999]

(***************************************************************************)
(* C15  Press overwrites press time: every press of button n stores the    *)
(* event's timestamp as the press time of n and produces no button action  *)
(* (no action at all when it carries the button bit only); after two       *)
(* presses the next release at t1 >= the later press time acts exactly     *)
(* when it is less than 1000 after the later press.                        *)
(***************************************************************************)
C15_PressStep ==
    LET e == Last(trace').ev
        n == e.number
    IN  (Decoded /\ PressEv(e, n))
        => /\ n \in DOMAIN button_press_time'
           /\ button_press_time'[n] = e.time
           /\ Last(trace').action # "on_button_" \o ToString(n) \o "_pressed"
           /\ e.type = 1 => /\ Last(trace').action = ""
                            /\ Last(trace').launched = <<>>

C15_FromLatestPress ==
    \A h, i, j \in Pos :
        LET n == trace[j].ev.number
        IN  (/\ h < i
             /\ PressEv(trace[h].ev, n)
             /\ PressEv(trace[i].ev, n)
             /\ PrevButtonEv(i, j, n)
             /\ ReleaseEv(trace[j].ev, n)
             /\ TimeLeq(trace[i].ev.time, trace[j].ev.time))
            => (trace[j].action = "on_button_" \o ToString(n) \o "_pressed"
                <=> GapLess(trace[i].ev.time, trace[j].ev.time, 1000))

C15_PressOverwrites == [][C15_PressStep]_vars /\ []C15_FromLatestPress

\* button 3 pressed at 0, pressed again at 999 and released at 1000: the
\* action is produced although 1000 passed since the first press
C15_Witness ==
    /\ Len(trace) = 3
    /\ PressEv(trace[1].ev, 3) /\ trace[1].ev.time = [hi |-> 0, lo |-> 0]
    /\ PressEv(trace[2].ev, 3) /\ trace[2].ev.time = [hi |-> 0, lo |-> 999]
    /\ ReleaseEv(trace[3].ev, 3) /\ trace[3].ev.time = [hi |-> 0, lo |-> 1000]
    /\ trace[3].action = "on_button_3_pressed"
    /\ button_press_time[3] = [hi |-> 0, lo |-> 999]

(***************************************************************************)
(* C16  Axis normalized value stays in range: the value stored for every   *)
(* axis with a state record lies in [-1, 1], whatever raw values the       *)
(* events carried (-32768 included).                                       *)
(***************************************************************************)
C16_NormalizedInRange ==
    \A n \in DOMAIN axes_prev_value :
        LET f == axes_prev_value[n]
        IN  f.den > 0 /\ 0 - f.den <= f.num /\ f.num <= f.den

\* axis 0 was sampled with raw value -32768 and has a stored value
C16_Witness ==
    /\ trace # <<>>
    /\ AxisEv(Last(trace).ev, 0)
    /\ Last(trace).ev.value = 0 - 32768
    /\ 0 \in DOMAIN axes_prev_value

(***************************************************************************)
(* C17  State records are never deleted: no step removes a button index    *)
(* from the press times or an axis index from the axis dicts, and an axis  *)
(* index has a time record exactly when it has a value record.             *)
(***************************************************************************)
C17_NeverDeleted ==
    /\ [][/\ DOMAIN button_press_time \subseteq DOMAIN button_press_time'
          /\ DOMAIN axes_prev_time \subseteq DOMAIN axes_prev_time'
          /\ DOMAIN axes_prev_value \subseteq DOMAIN axes_prev_value']_vars
    /\ [](DOMAIN axes_prev_time = DOMAIN axes_prev_value)

\* button 3 was released with an action, its record and an axis record
\* are still there
C17_Witness ==
    /\ Len(trace) >= 3
    /\ ReleaseEv(Last(trace).ev, 3)
    /\ Last(trace).action = "on_button_3_pressed"
    /\ 3 \in DOMAIN button_press_time
    /\ DOMAIN axes_prev_time # {}

(***************************************************************************)
(* C18  Per-index isolation: an event with the button bit and without the  *)
(* axis bit for index n leaves the press times of all other indices and    *)
(* both axis dicts unchanged, and when it is a release also the press time *)
(* of n; an event with the axis bit and without the button bit for n       *)
(* leaves the axis records of all other indices and the press times        *)
(* unchanged.                                                              *)
(***************************************************************************)
SameExcept(d1, d2, n) ==
    /\ DOMAIN d2 \ {n} = DOMAIN d1 \ {n}
    /\ \A k \in DOMAIN d1 \ {n} : d2[k] = d1[k]

C18_ButtonOnly ==
    LET e == Last(trace').ev
    IN  (Decoded /\ e.type < 128 /\ e.type % 4 = 1)
        => /\ UNCHANGED <<axes_prev_time, axes_prev_value>>
           /\ SameExcept(button_press_time, button_press_time', e.number)
           /\ e.value = 0 => button_press_time' = button_press_time

C18_AxisOnly ==
    LET e == Last(trace').ev
    IN  (Decoded /\ e.type < 128 /\ e.type % 4 = 2)
        => /\ UNCHANGED button_press_time
           /\ SameExcept(axes_prev_time, axes_prev_time', e.number)
           /\ SameExcept(axes_prev_value, axes_prev_value', e.number)

C18_Isolation == [][C18_ButtonOnly]_vars /\ [][C18_AxisOnly]_vars

\* button 0 was pressed after button 3 and axis 1 had records, which are
\* still there
C18_Witness ==
    /\ Len(trace) = 3
    /\ PressEv(Last(trace).ev, 0)
    /\ Last(trace).ev.type = 1
    /\ DOMAIN button_press_time = {0, 3}
    /\ button_press_time[3] = trace[1].ev.time
    /\ DOMAIN axes_prev_time = {1}
    /\ axes_prev_time[1] = trace[2].ev.time

(***************************************************************************)
(* C19  No stale action across events: the action name after an event is   *)
(* the one classified from that event -- a button action of its index only *)
(* for a release, an axis action of its index only for an axis event, none *)
(* for an init event, a press without axis bit, a record with neither bit  *)
(* or a release 1000 or more after the press -- and every launch is of     *)
(* that action's script.                                                   *)
(***************************************************************************)
C19_NoStaleAction ==
    /\ trace # <<>> => action_fn = Last(trace).action
    /\ \A j \in Pos :
          LET x == trace[j]
              e == x.ev
              n == e.number
          IN  /\ x.action # ""
                  => \/ /\ ReleaseEv(e, n)
                        /\ x.action = "on_button_" \o ToString(n) \o "_pressed"
                     \/ AxisEv(e, n) /\ IsAxisAction(x.action, n)
              /\ x.launched # <<>>
                  => x.action # "" /\ x.launched = <<"/home/pi/" \o x.action>>
              /\ HasInitBit(e) => x.action = "" /\ x.launched = <<>>
              /\ (e.type = 1 /\ e.value = 0)
                  => \A i \in Pos :
                        (/\ PrevPress(i, j, n)
                         /\ TimeLeq(trace[i].ev.time, e.time)
                         /\ ~GapLess(trace[i].ev.time, e.time, 1000))
                        => x.action = "" /\ x.launched = <<>>

\* a release started a script and the init event after it started nothing
C19_Witness ==
    /\ Len(trace) >= 2
    /\ trace[Len(trace) - 1].launched # <<>>
    /\ HasInitBit(Last(trace).ev)
    /\ Last(trace).launched = <<>>
    /\ action_fn = ""

====
